---------------------------- MODULE Spec2Model ----------------------------
(***************************************************************************)
(* food_tracker: the recognition engine (ai.py) and the tracker's calls    *)
(* into it (tracker.py).                                                   *)
(*                                                                         *)
(* A Python str is a sequence of one-character strings.  A Python list is  *)
(* an object on a heap (lists), so that two references to one list are     *)
(* told apart from a list and its copy.  A weight count/norm of an         *)
(* embedding and a confidence are real numbers of the form num/sqrt(n2),   *)
(* held exactly as the pair (num, n2) and compared by cross-multiplying    *)
(* squares; floating-point rounding is not modelled.                       *)
(***************************************************************************)
EXTENDS Integers, Sequences, FiniteSets, TLC

VARIABLES
    lists,              \* heap of list objects: EngineList is self._reference_items
    reference_vectors,  \* self._reference_vectors
    snapshot,           \* the caller's reference to a list known_items returned
    mutated,            \* whether the caller has changed that list yet
    n_loaded,           \* number of items _load_reference loaded at construction
    op                  \* the last call: its name, arguments and outcome

vars == <<lists, reference_vectors, snapshot, mutated, n_loaded, op>>

---------------------------------------------------------------------------
(* Bounds of the model.                                                    *)

MaxCatalog == 4     \* add_custom_item is not called on a longer catalog
MaxLoaded == 1      \* items in the reference dataset at construction
MaxTopK == 4        \* largest top_k passed to recognise
MaxBulk == 1        \* longest list of descriptions passed to scan_bulk

---------------------------------------------------------------------------
(* Text.                                                                   *)

Whitespace == {" "}
Digits == <<"0", "1", "2", "3", "4", "5", "6", "7", "8", "9">>

\* the characters \w matches, and the apostrophe of _TOKEN_RE
TokenChars ==
    {"a", "b", "e", "f", "g", "i", "j", "n", "p", "r", "s", "t", "v",
     "B", "J", "P", "_", "'"} \cup {Digits[i] : i \in DOMAIN Digits}

Range(s) == {s[i] : i \in DOMAIN s}

\* str.lower, one character
LowerChar(c) ==
    CASE c = "B" -> "b"
      [] c = "J" -> "j"
      [] c = "P" -> "p"
      [] OTHER -> c

\* str.lower
lower(text) == [i \in DOMAIN text |-> LowerChar(text[i])]

RECURSIVE LStrip(_)
LStrip(text) ==
    IF text # <<>> /\ Head(text) \in Whitespace THEN LStrip(Tail(text)) ELSE text

RECURSIVE RStrip(_)
RStrip(text) ==
    IF text # <<>> /\ text[Len(text)] \in Whitespace
    THEN RStrip(SubSeq(text, 1, Len(text) - 1))
    ELSE text

\* str.strip
strip(text) == RStrip(LStrip(text))

\* needle in hay
Contains(hay, needle) ==
    \E i \in 0..(Len(hay) - Len(needle)) :
        SubSeq(hay, i + 1, i + Len(needle)) = needle

\* sep.join(parts)
RECURSIVE Join(_, _)
Join(parts, sep) ==
    IF parts = <<>> THEN <<>>
    ELSE IF Len(parts) = 1 THEN parts[1]
    ELSE parts[1] \o sep \o Join(Tail(parts), sep)

\* f"{amount}" for a non-negative int amount
RECURSIVE FormatAmount(_)
FormatAmount(n) ==
    IF n < 10 THEN <<Digits[n + 1]>>
    ELSE FormatAmount(n \div 10) \o <<Digits[(n % 10) + 1]>>

---------------------------------------------------------------------------
(* The vectorizer.                                                         *)

\* re.findall of [\w']+ : the maximal runs of token characters, left to right
RECURSIVE FindAll(_, _, _)
FindAll(text, run, found) ==
    IF text = <<>>
    THEN IF run = <<>> THEN found ELSE Append(found, run)
    ELSE IF Head(text) \in TokenChars
         THEN FindAll(Tail(text), Append(run, Head(text)), found)
         ELSE FindAll(Tail(text), <<>>,
                      IF run = <<>> THEN found ELSE Append(found, run))

tokenize(text) == FindAll(lower(text), <<>>, <<>>)

\* collections.Counter
Counter(tokens) ==
    [t \in Range(tokens) |-> Cardinality({i \in DOMAIN tokens : tokens[i] = t})]

RECURSIVE SumOver(_, _)
SumOver(keys, f) ==
    IF keys = {} THEN 0
    ELSE LET k == CHOOSE x \in keys : TRUE
         IN  f[k] + SumOver(keys \ {k}, f)

\* The dict {key: value / norm}: the numerators value, and norm squared.
\* A sum of squares of 0 gives the norm 1.0.
normalise(vector) ==
    LET sq == SumOver(DOMAIN vector, [k \in DOMAIN vector |-> vector[k] * vector[k]])
    IN  [weights |-> vector, norm2 |-> IF sq = 0 THEN 1 ELSE sq]

\* the sum of a[key] * b[key] over the common keys, as num/sqrt(n2)
cosine_similarity(a, b) ==
    LET common == DOMAIN a.weights \cap DOMAIN b.weights
    IN  [num |-> SumOver(common, [k \in common |-> a.weights[k] * b.weights[k]]),
         n2 |-> a.norm2 * b.norm2]

\* EmbeddingModel.encode
encode(texts) == [i \in DOMAIN texts |-> normalise(Counter(tokenize(texts[i])))]

---------------------------------------------------------------------------
(* Confidence values num/sqrt(n2), with num >= 0 and n2 > 0.               *)

OverrideFloor == [num |-> 99, n2 |-> 10000]     \* the literal 0.99

ConfLeq(x, y) == x.num * x.num * y.n2 <= y.num * y.num * x.n2
ConfLt(x, y) == x.num * x.num * y.n2 < y.num * y.num * x.n2
ConfEq(x, y) == x.num * x.num * y.n2 = y.num * y.num * x.n2

\* max(a, b): the first argument unless the second is greater
ConfMax(a, b) == IF ConfLt(a, b) THEN b ELSE a


---------------------------------------------------------------------------
(* Food items.  macronutrients is a dict, held as the sequence of its      *)
(* (nutrient, amount) pairs in insertion order, or None: nothing checks    *)
(* the type of a FoodItem's fields.  The value carries its Python type.    *)

Dict(pairs) == [type |-> "dict", items |-> pairs]
None == [type |-> "NoneType", items |-> <<>>]

FoodItem(name, serving_size, calories, macronutrients, aliases) ==
    [name |-> name, serving_size |-> serving_size, calories |-> calories,
     macronutrients |-> macronutrients, aliases |-> aliases]

\* item.matches(text): case-insensitively, text is contained in the name or
\* in an alias
matches(item, text) ==
    LET query == lower(text)
    IN  \/ Contains(lower(item.name), query)
        \/ \E i \in DOMAIN item.aliases : Contains(lower(item.aliases[i]), query)

\* item.macronutrients.items() raises AttributeError on None
RepresentationRaises(item) == item.macronutrients = None

\* _item_representation, for an item it does not raise on
item_representation(item) ==
    LET aliases == Join(item.aliases, <<",", " ">>)
        pairs == [i \in DOMAIN item.macronutrients.items |->
                    item.macronutrients.items[i][1] \o <<":">> \o
                    FormatAmount(item.macronutrients.items[i][2])]
        macros == Join(pairs, <<",", " ">>)
    IN  item.name \o <<" ", "s", "e", "r", "v", "i", "n", "g", " ">> \o
        item.serving_size \o <<" ">> \o aliases \o <<" ">> \o macros

---------------------------------------------------------------------------
(* Inputs.                                                                 *)

Pbj ==
    FoodItem(<<"P", "b">>, <<"1">>, 2, Dict(<< <<<<"f", "a", "t">>, 1>> >>),
             << <<"P", "B", "&", "J">> >>)
Serving == FoodItem(<<"s", "e", "r", "v", "i", "n", "g">>, <<>>, 0, Dict(<<>>), <<>>)
NoMacros == FoodItem(<<"s", "e", "r", "v", "i", "n", "g">>, <<>>, 0, None, <<>>)

ItemPool == {Pbj, Serving, NoMacros}
\* what _load_reference can have loaded when the constructor returns
LoadablePool == {it \in ItemPool : ~RepresentationRaises(it)}

Descriptions ==
    {<<>>, <<" ">>, <<"p", "b">>, <<"P", "B", "&", "J">>,
     <<"s", "e", "r", "v", "i", "n", "g">>, <<"b">>}
BulkDescriptions == {<<" ">>, <<"p", "b">>}

DefaultTopK == 3
TopKs == (-1)..MaxTopK

SeqsUpTo(S, n) == UNION {[1..k -> S] : k \in 0..n}

---------------------------------------------------------------------------
(* The recognition engine.                                                 *)

EngineList == "reference_items"     \* the list self._reference_items refers to
CopyList == "copy"                  \* the list a call of known_items creates
NoRef == "none"                     \* the caller holds no such list

Min(a, b) == IF a < b THEN a ELSE b
Max(a, b) == IF a < b THEN b ELSE a

\* list.reverse
Reverse(s) == [i \in DOMAIN s |-> s[Len(s) + 1 - i]]

\* __init__: the vectors of the loaded items
LoadedVectors(items) ==
    encode([i \in DOMAIN items |-> item_representation(items[i])])

\* (a variant of known_items that returns the engine's own list)
known_items_alias(heap) == [ref |-> EngineList, heap |-> heap]

\* known_items: list(self._reference_items), a new list
known_items(heap) ==
    [ref |-> CopyList, heap |-> [heap EXCEPT ![CopyList] = heap[EngineList]]]

\* (a variant of score without the override: the cosine alone)
score_no_override(items, vectors, description) ==
    LET description_vector == encode(<<description>>)[1]
    IN  [i \in 1..Min(Len(items), Len(vectors)) |->
            [pos |-> i, item |-> items[i],
             confidence |-> cosine_similarity(description_vector, vectors[i])]]

\* (a variant of score that assigns 0.99 on a match instead of taking the max)
score_floor_assigned(items, vectors, description) ==
    LET description_vector == encode(<<description>>)[1]
    IN  [i \in 1..Min(Len(items), Len(vectors)) |->
            [pos |-> i, item |-> items[i],
             confidence |-> IF matches(items[i], description)
                            THEN OverrideFloor
                            ELSE cosine_similarity(description_vector, vectors[i])]]

\* the loop of recognise over zip(items, vectors); pos is the item's index
score(items, vectors, description) ==
    LET description_vector == encode(<<description>>)[1]
    IN  [i \in 1..Min(Len(items), Len(vectors)) |->
            LET confidence == cosine_similarity(description_vector, vectors[i])
            IN  [pos |-> i, item |-> items[i],
                 confidence |-> IF matches(items[i], description)
                                THEN ConfMax(confidence, OverrideFloor)
                                ELSE confidence]]

\* list.sort(key=confidence, reverse=True) is stable: an element goes after
\* every element already placed whose confidence is not lower
RECURSIVE InsertByConfidence(_, _)
InsertByConfidence(sorted, r) ==
    IF sorted = <<>> THEN <<r>>
    ELSE IF ConfLt(Head(sorted).confidence, r.confidence)
         THEN <<r>> \o sorted
         ELSE <<Head(sorted)>> \o InsertByConfidence(Tail(sorted), r)

RECURSIVE SortFrom(_, _)
SortFrom(scored, sorted) ==
    IF scored = <<>> THEN sorted
    ELSE SortFrom(Tail(scored), InsertByConfidence(sorted, Head(scored)))

\* (a variant of the sort: ascending, then reversed, which turns ties around)
sort_ascending_reversed(scored) == SortFrom(Reverse(scored), <<>>)

sort_by_confidence(scored) == SortFrom(scored, <<>>)

\* scored[:top_k], a negative top_k counting from the end
SliceTo(scored, top_k) ==
    IF top_k >= 0
    THEN SubSeq(scored, 1, Min(top_k, Len(scored)))
    ELSE SubSeq(scored, 1, Max(Len(scored) + top_k, 0))

\* (a variant of recognise that tests the description without strip)
recognise_no_strip(items, vectors, description, top_k) ==
    IF description = <<>>
    THEN [result |-> <<>>, n_scored |-> 0]
    ELSE LET scored == score(items, vectors, description)
         IN  [result |-> SliceTo(sort_by_confidence(scored), top_k),
              n_scored |-> Len(scored)]

\* recognise: the list returned and the number of items scored
recognise(items, vectors, description, top_k) ==
    IF strip(description) = <<>>
    THEN [result |-> <<>>, n_scored |-> 0]
    ELSE LET scored == score(items, vectors, description)
         IN  [result |-> SliceTo(sort_by_confidence(scored), top_k),
              n_scored |-> Len(scored)]

\* (a variant of add_custom_item that inserts at the front)
add_custom_item_front(items, vectors, item) ==
    [items |-> <<item>> \o items,
     vectors |-> IF RepresentationRaises(item) THEN vectors
                 ELSE <<encode(<<item_representation(item)>>)[1]>> \o vectors,
     raised |-> RepresentationRaises(item)]

\* add_custom_item: the item is appended, then its vector is built and
\* appended; raised when building it raises
add_custom_item(items, vectors, item) ==
    [items |-> Append(items, item),
     vectors |-> IF RepresentationRaises(item) THEN vectors
                 ELSE Append(vectors, encode(<<item_representation(item)>>)[1]),
     raised |-> RepresentationRaises(item)]

\* scan_bulk: recognise with the default top_k, per description
scan_bulk(items, vectors, descriptions) ==
    [i \in DOMAIN descriptions |->
        recognise(items, vectors, descriptions[i], DefaultTopK).result]

\* register_custom_food builds the item: macronutrients or {} takes {} for
\* None and for an empty dict; list(aliases or []) copies the aliases
register_custom_food(name, serving_size, calories, macronutrients, aliases) ==
    FoodItem(name, serving_size, calories,
             IF macronutrients = None \/ macronutrients.items = <<>>
             THEN Dict(<<>>) ELSE macronutrients,
             aliases)

---------------------------------------------------------------------------
(* The state machine.                                                      *)

reference_items == lists[EngineList]

Call(name, arg, top_k, result, n_scored, raised) ==
    [name |-> name, arg |-> arg, top_k |-> top_k, result |-> result,
     n_scored |-> n_scored, raised |-> raised]

\* no call is outstanding: the caller is between two calls
Idle == Call("idle", <<>>, 0, <<>>, 0, FALSE)

Init ==
    \E loaded \in SeqsUpTo(LoadablePool, MaxLoaded) :
        /\ lists = [r \in {EngineList, CopyList} |->
                        IF r = EngineList THEN loaded ELSE <<>>]
        /\ reference_vectors = LoadedVectors(loaded)
        /\ snapshot = NoRef
        /\ mutated = FALSE
        /\ n_loaded = Len(loaded)
        /\ op = Idle

AddCustomItem ==
    /\ op = Idle
    /\ Len(reference_items) < MaxCatalog
    /\ \E item \in ItemPool :
        LET r == add_custom_item(reference_items, reference_vectors, item)
        IN  /\ lists' = [lists EXCEPT ![EngineList] = r.items]
            /\ reference_vectors' = r.vectors
            /\ op' = Call("add_custom_item", item, 0, <<>>, 0, r.raised)
    /\ UNCHANGED <<snapshot, mutated, n_loaded>>

\* FoodTracker.register_custom_food: build the item, add it, return it
RegisterCustomFood ==
    /\ op = Idle
    /\ Len(reference_items) < MaxCatalog
    /\ \E it \in ItemPool :
        LET item == register_custom_food(it.name, it.serving_size, it.calories,
                                         it.macronutrients, it.aliases)
            r == add_custom_item(reference_items, reference_vectors, item)
        IN  /\ lists' = [lists EXCEPT ![EngineList] = r.items]
            /\ reference_vectors' = r.vectors
            /\ op' = Call("register_custom_food", item, 0, item, 0, r.raised)
    /\ UNCHANGED <<snapshot, mutated, n_loaded>>

\* recognise, also as FoodTracker.scan_description calls it
Recognise ==
    /\ op = Idle
    /\ \E description \in Descriptions, top_k \in TopKs :
        LET r == recognise(reference_items, reference_vectors, description, top_k)
        IN  op' = Call("recognise", description, top_k, r.result, r.n_scored, FALSE)
    /\ UNCHANGED <<lists, reference_vectors, snapshot, mutated, n_loaded>>

ScanBulk ==
    /\ op = Idle
    /\ \E descriptions \in SeqsUpTo(BulkDescriptions, MaxBulk) :
        op' = Call("scan_bulk", descriptions, DefaultTopK,
                   scan_bulk(reference_items, reference_vectors, descriptions),
                   0, FALSE)
    /\ UNCHANGED <<lists, reference_vectors, snapshot, mutated, n_loaded>>

KnownItems ==
    /\ op = Idle
    /\ LET r == known_items(lists)
       IN  /\ lists' = r.heap
           /\ snapshot' = r.ref
           /\ op' = Call("known_items", <<>>, 0, r.heap[r.ref], 0, FALSE)
    /\ mutated' = FALSE
    /\ UNCHANGED <<reference_vectors, n_loaded>>

\* the caller changes the list known_items returned, once: it appends an
\* item, removes the last one or reverses the list
MutateSnapshot ==
    /\ op = Idle
    /\ snapshot # NoRef
    /\ ~mutated
    /\ \E changed \in {Append(lists[snapshot], Pbj), Reverse(lists[snapshot]),
                       SubSeq(lists[snapshot], 1, Len(lists[snapshot]) - 1)} :
        /\ changed # lists[snapshot]
        /\ lists' = [lists EXCEPT ![snapshot] = changed]
    /\ mutated' = TRUE
    /\ op' = Call("mutate_snapshot", <<>>, 0, <<>>, 0, FALSE)
    /\ UNCHANGED <<reference_vectors, snapshot, n_loaded>>

\* the caller has read what the call returned or raised
Return ==
    /\ op # Idle
    /\ op' = Idle
    /\ UNCHANGED <<lists, reference_vectors, snapshot, mutated, n_loaded>>

Next ==
    \/ AddCustomItem
    \/ RegisterCustomFood
    \/ Recognise
    \/ ScanBulk
    \/ KnownItems
    \/ MutateSnapshot
    \/ Return

Spec == Init /\ [][Next]_vars

---------------------------------------------------------------------------
(* Properties.                                                             *)

IsPrefix(a, b) == Len(a) <= Len(b) /\ SubSeq(b, 1, Len(a)) = a

\* empty, or whitespace only
IsBlank(description) == \A i \in DOMAIN description : description[i] \in Whitespace

\* the description is contained in the item's name, case-insensitively
NameMatches(item, description) == Contains(lower(item.name), lower(description))

AtLeastFloor(confidence) == ConfLeq(OverrideFloor, confidence)

\* the catalog positions of a result list
Positions(result) == {result[j].pos : j \in DOMAIN result}

\* the last call was recognise with a description that is not blank
Recognised == op.name = "recognise" /\ ~IsBlank(op.arg)

\* what the last recognise call scored, before sorting and truncation
Scored == score(reference_items, reference_vectors, op.arg)

\* C1: in every reachable state the item list and the vector list have the
\* same length, and the vector at index i is the encoding of the
\* representation of the item at index i.
C1_CatalogAligned ==
    /\ Len(reference_items) = Len(reference_vectors)
    /\ \A i \in DOMAIN reference_items :
        /\ ~RepresentationRaises(reference_items[i])
        /\ reference_vectors[i] =
               encode(<<item_representation(reference_items[i])>>)[1]

\* the item list and the vector list have the same length
SameLength == Len(reference_items) = Len(reference_vectors)

C3_NonPositiveTopKEmpty ==
    (Recognised /\ op.top_k <= 0) => (op.result = <<>> /\ ~op.raised)

\* C4: for a description that is not blank and top_k >= 0, recognise returns
\* exactly min(top_k, N) results for a catalog of N items, each for a
\* distinct position, in non-increasing order of confidence, no item left
\* out having a strictly higher confidence than one returned; when
\* top_k >= N every catalog item appears exactly once.
C4_TopKRanked ==
    (Recognised /\ op.top_k >= 0) =>
        /\ Len(op.result) = Min(op.top_k, Len(reference_items))
        /\ \A j, k \in DOMAIN op.result :
            /\ j # k => op.result[j].pos # op.result[k].pos
            /\ j < k => ConfLeq(op.result[k].confidence, op.result[j].confidence)
        /\ \A j \in DOMAIN op.result :
            /\ op.result[j].pos \in DOMAIN reference_items
            /\ op.result[j].item = reference_items[op.result[j].pos]
        /\ \A i \in DOMAIN Scored \ Positions(op.result) :
            \A j \in DOMAIN op.result :
                ~ConfLt(op.result[j].confidence, Scored[i].confidence)
        /\ op.top_k >= Len(reference_items) =>
                Positions(op.result) = DOMAIN reference_items

\* C5: every result of recognise has the confidence max(cosine, 0.99) when
\* its item matches the description and the cosine itself otherwise, the
\* cosine being that of the description's vector and the vector the item
\* was scored with; a cosine above 0.99 is never lowered.
C5_OverrideIsFloor ==
    Recognised =>
        \A j \in DOMAIN op.result :
            LET r == op.result[j]
                cosine == cosine_similarity(encode(<<op.arg>>)[1],
                                            reference_vectors[r.pos])
            IN  /\ ~ConfLt(r.confidence, cosine)
                /\ IF matches(r.item, op.arg)
                   THEN /\ AtLeastFloor(r.confidence)
                        /\ ConfEq(r.confidence, cosine)
                            \/ (ConfEq(r.confidence, OverrideFloor)
                                /\ ConfLeq(cosine, OverrideFloor))
                   ELSE r.confidence = cosine

\* C5's case: a matching item whose cosine is above 0.99, and another
\* result that does not match.
C5_Witness ==
    /\ Recognised
    /\ \E j \in DOMAIN op.result :
        /\ matches(op.result[j].item, op.arg)
        /\ ConfLt(OverrideFloor, op.result[j].confidence)
    /\ \E j \in DOMAIN op.result :
        /\ ~matches(op.result[j].item, op.arg)
        /\ op.result[j].confidence.num > 0

\* C6: for a blank description recognise returns an empty list, for every
\* top_k and catalog, without raising, scores nothing and leaves the
\* catalog unchanged.
C6_BlankShortCircuit ==
    [][(op'.name = "recognise" /\ IsBlank(op'.arg)) =>
            /\ op'.result = <<>>
            /\ op'.n_scored = 0
            /\ ~op'.raised
            /\ reference_items' = reference_items
            /\ reference_vectors' = reference_vectors]_vars

\* C6's case: a whitespace-only description on a catalog that is not empty.
C6_Witness ==
    /\ op.name = "recognise"
    /\ op.arg # <<>> /\ IsBlank(op.arg)
    /\ Len(reference_items) > 1 /\ Len(reference_vectors) > 1

\* C7: known_items returns the catalog's items in catalog order; a change
\* of the returned list changes neither the catalog nor what recognise and
\* known_items return afterwards; add_custom_item does not change a list
\* returned earlier.
C7_SnapshotIsCopy ==
    [][/\ op'.name = "known_items" =>
            /\ op'.result = reference_items
            /\ lists'[snapshot'] = reference_items
            /\ reference_items' = reference_items
       /\ op'.name = "mutate_snapshot" =>
            /\ reference_items' = reference_items
            /\ reference_vectors' = reference_vectors
            /\ known_items(lists').heap[known_items(lists').ref] =
                    known_items(lists).heap[known_items(lists).ref]
            /\ \A d \in Descriptions :
                recognise(reference_items', reference_vectors', d, DefaultTopK)
                    = recognise(reference_items, reference_vectors, d, DefaultTopK)
       /\ (op'.name \in {"add_custom_item", "register_custom_food"}
            /\ snapshot # NoRef) =>
                lists'[snapshot] = lists[snapshot]]_vars

\* C7's case: the caller changed a returned list, and an item was added
\* afterwards.
C7_Witness ==
    /\ snapshot # NoRef /\ mutated
    /\ op.name = "add_custom_item" /\ ~op.raised
    /\ lists[snapshot] # <<>>

\* C8: in a result of recognise two items of equal confidence stand in
\* catalog order, and an item left out by the truncation stands after every
\* returned item of equal confidence in the catalog.
C8_TiesInCatalogOrder ==
    Recognised =>
        /\ \A j, k \in DOMAIN op.result :
            (j < k /\ ConfEq(op.result[j].confidence, op.result[k].confidence))
                => op.result[j].pos < op.result[k].pos
        /\ \A i \in DOMAIN Scored \ Positions(op.result) :
            \A j \in DOMAIN op.result :
                ConfEq(op.result[j].confidence, Scored[i].confidence)
                    => op.result[j].pos < i

\* C8's case: a tie inside the result and a tie across the truncation.
C8_Witness ==
    /\ Recognised /\ op.top_k > 0
    /\ \E j, k \in DOMAIN op.result :
        j < k /\ ConfEq(op.result[j].confidence, op.result[k].confidence)
    /\ \E i \in DOMAIN Scored \ Positions(op.result) :
        ConfEq(op.result[Len(op.result)].confidence, Scored[i].confidence)

\* C9: the catalog before a step is a prefix of the catalog after it;
\* add_custom_item appends exactly one item, the one passed; recognise,
\* known_items and scan_bulk leave the catalog unchanged.
C9_AppendOnly ==
    [][/\ IsPrefix(reference_items, reference_items')
       /\ IsPrefix(reference_vectors, reference_vectors')
       /\ op'.name \in {"add_custom_item", "register_custom_food"} =>
            reference_items' = Append(reference_items, op'.arg)
       /\ op'.name \in {"recognise", "known_items", "scan_bulk"} =>
            /\ reference_items' = reference_items
            /\ reference_vectors' = reference_vectors]_vars

\* C9's case: an item was added to a catalog that held other items.
C9_Witness ==
    /\ op.name = "add_custom_item" /\ ~op.raised
    /\ Len(reference_items) > 2
    /\ reference_items[1] # reference_items[Len(reference_items)]

\* C10: a call of add_custom_item that raises leaves the catalog as it was
\* before the call.
C10_FailedAddLeavesCatalog ==
    [][(op'.name = "add_custom_item" /\ op'.raised) =>
            /\ reference_items' = reference_items
            /\ reference_vectors' = reference_vectors]_vars

=============================================================================
